---------------------------- MODULE Spec2Model ----------------------------
(***************************************************************************)
(* Model of 1_Data_Preparation.ipynb: the preProcess function (Cell 2),   *)
(* the column renaming done by Cells 4, 6 and 7, and the output cells     *)
(* 3..7 with their guarded writes.                                         *)
(*                                                                         *)
(* Encoding.                                                               *)
(*   - A string is a sequence of one-character strings, so that the       *)
(*     renaming code (concatenation, item[0], item[1], [-1], [:-1]) is    *)
(*     computed character by character.                                    *)
(*   - A cell value is a pair <<num, den>>: the number num/den, or NaN    *)
(*     when den = 0.  Values read from the file have den = 1; a mean over *)
(*     k observations is kept as <<sum, k>>.                               *)
(*   - A parsed TIMESTAMP is the number of hours since 2012-01-01 00:00.  *)
(*   - A column label is a record: tuple = TRUE for a MultiIndex key      *)
(*     (name, sub), with sub = <<z>> for zone z and sub = <<>> for the    *)
(*     empty second level ''; tuple = FALSE for a plain string label.     *)
(*   - A data frame is [error, index, names, columns, data]: data is a    *)
(*     sequence of rows, each a sequence of values in column order; an    *)
(*     error # "" is the exception that ended the computation; index      *)
(*     holds the row labels and names the names of the index levels.      *)
(***************************************************************************)
EXTENDS Integers, Sequences, FiniteSets, TLC

VARIABLES
    csv, Nroll, keepID,   \* the arguments of a call of preProcess
    pc,                   \* how far the call and the renaming have got
    df, dtimes,           \* what the call returned, and its local dtimes
    flat, rule, flat2,    \* the renamed frame, by which cell's code, and the
                          \* frame renamed a second time
    files,                \* notebook: the csv files on disk, by name
    globals,              \* notebook: train_df, test_df, solution_df
    cells,                \* notebook: status, output and writes of each cell
    written               \* notebook: the output files that exist

vars == <<csv, Nroll, keepID, pc, df, dtimes, flat, rule, flat2,
          files, globals, cells, written>>

---------------------------------------------------------------------------
(* Bounds of the model                                                     *)

MaxT == 3
MaxNroll == 3
MaxBadZone == 2

---------------------------------------------------------------------------
(* Strings                                                                 *)

ID == <<"I", "D">>
ZONEID == <<"Z", "O", "N", "E", "I", "D">>
TIMESTAMP == <<"T", "I", "M", "E", "S", "T", "A", "M", "P">>
TARGETVAR == <<"T", "A", "R", "G", "E", "T", "V", "A", "R">>
U10 == <<"U", "1", "0">>
V10 == <<"V", "1", "0">>
U100 == <<"U", "1", "0", "0">>
V100 == <<"V", "1", "0", "0">>
YEAR == <<"Y", "E", "A", "R">>
DAYOFYEAR == <<"D", "A", "Y", "O", "F", "Y", "E", "A", "R">>
HOUR == <<"H", "O", "U", "R">>

Digits == <<"0", "1", "2", "3", "4", "5", "6", "7", "8", "9">>

RECURSIVE IntToStr(_)
\* str(n) for an integer n >= 0: its decimal digits
IntToStr(n) ==
    IF n < 10 THEN <<Digits[n + 1]>>
    ELSE IntToStr(n \div 10) \o <<Digits[(n % 10) + 1]>>

---------------------------------------------------------------------------
(* Values                                                                  *)

NaN == <<0, 0>>
Val(n) == <<n, 1>>
IsNaN(v) == v[2] = 0

---------------------------------------------------------------------------
(* Labels and frames                                                       *)

Lbl(name) == [tuple |-> FALSE, name |-> name, sub |-> <<>>]
Key(name, sub) == [tuple |-> TRUE, name |-> name, sub |-> sub]

Frame(index, names, columns, data) ==
    [error |-> "", index |-> index, names |-> names, columns |-> columns,
     data |-> data]
Raise(e) ==
    [error |-> e, index |-> <<>>, names |-> <<>>, columns |-> <<>>,
     data |-> <<>>]
Failed(frame) == frame.error # ""
NoFrame == Raise("unset")

\* positions of the columns carrying a label
Positions(columns, label) == {k \in DOMAIN columns : columns[k] = label}
HasCol(frame, label) == Positions(frame.columns, label) # {}
ColPos(frame, label) == CHOOSE k \in Positions(frame.columns, label) : TRUE

\* frame[label]: the column as a sequence of values, one per row
GetCol(frame, label) ==
    LET k == ColPos(frame, label)
    IN [r \in DOMAIN frame.data |-> frame.data[r][k]]

\* frame[label] = values: replaces the column, or appends a new last column
SetCol(frame, label, values) ==
    LET at == Positions(frame.columns, label)
    IN IF at # {}
       THEN LET k == CHOOSE x \in at : TRUE
            IN [frame EXCEPT !.data =
                  [r \in DOMAIN frame.data |->
                      [frame.data[r] EXCEPT ![k] = values[r]]]]
       ELSE [frame EXCEPT !.columns = Append(frame.columns, label),
                          !.data = [r \in DOMAIN frame.data |->
                                       Append(frame.data[r], values[r])]]

\* s without the positions in drop
Without(s, drop) ==
    LET kept == SelectSeq([k \in DOMAIN s |-> <<k, s[k]>>],
                          LAMBDA p : p[1] \notin drop)
    IN [j \in DOMAIN kept |-> kept[j][2]]

\* frame.drop(name, axis=1) / frame.drop(name, axis=1, level=0): removes the
\* columns whose (first-level) name is name; KeyError when there is none
DropName(frame, name) ==
    LET drop == {k \in DOMAIN frame.columns : frame.columns[k].name = name}
    IN IF drop = {} THEN Raise("KeyError")
       ELSE [frame EXCEPT !.columns = Without(frame.columns, drop),
                          !.data = [r \in DOMAIN frame.data |->
                                       Without(frame.data[r], drop)]]

\* frame.drop([labels], axis=1): KeyError when one of them is absent
DropLabels(frame, labels) ==
    LET drop == {k \in DOMAIN frame.columns :
                    \E j \in DOMAIN labels : frame.columns[k] = labels[j]}
    IN IF \E j \in DOMAIN labels : ~HasCol(frame, labels[j])
       THEN Raise("KeyError")
       ELSE [frame EXCEPT !.columns = Without(frame.columns, drop),
                          !.data = [r \in DOMAIN frame.data |->
                                       Without(frame.data[r], drop)]]

RECURSIVE SortSet(_)
\* the elements of a set of integers in ascending order
SortSet(S) ==
    IF S = {} THEN <<>>
    ELSE LET m == CHOOSE x \in S : \A y \in S : x <= y
         IN <<m>> \o SortSet(S \ {m})

---------------------------------------------------------------------------
(* Cell 2: preProcess, stage by stage                                      *)

\* pd.read_csv(fname, header=0, parse_dates=[2], index_col=[2,1]): the third
\* and second file columns (TIMESTAMP, ZONEID) become the row index, the
\* other columns stay in file order
read_csv(f) ==
    LET columns == Without(f.header, {2, 3})
    IN Frame([i \in DOMAIN f.rows |-> <<f.rows[i][3][1], f.rows[i][2][1]>>],
             <<f.header[3], f.header[2]>>,
             [k \in DOMAIN columns |-> Lbl(columns[k])],
             [i \in DOMAIN f.rows |-> Without(f.rows[i], {2, 3})])

\* df0.fillna(0, inplace=True)
fillna(frame) ==
    [frame EXCEPT !.data =
        [r \in DOMAIN frame.data |->
            [k \in DOMAIN frame.data[r] |->
                IF IsNaN(frame.data[r][k]) THEN Val(0) ELSE frame.data[r][k]]]]

\* (mutant) the ID column is never dropped
dropID_Never(frame, keep) == frame

\* if not keepID: df0 = df0.drop('ID', 1)
dropID(frame, keep) == IF keep THEN frame ELSE DropName(frame, ID)

\* the outer index level in ascending order, one entry per distinct value,
\* and the inner one likewise: the rows and the sub-columns of the unstacked
\* frame
\* (mutant) one row per row of df0: the rows of a timestamp are not merged
RowOrder_Unmerged(idx) ==
    LET times == SortSet({idx[i][1] : i \in DOMAIN idx})
        zones == {idx[i][2] : i \in DOMAIN idx}
        n == Cardinality(zones)
    IN [k \in 1..(Len(times) * n) |-> times[((k - 1) \div n) + 1]]

RECURSIVE FirstSeen(_, _)
FirstSeen(idx, k) ==
    IF k > Len(idx) THEN <<>>
    ELSE (IF \E j \in 1..(k - 1) : idx[j][1] = idx[k][1] THEN <<>>
          ELSE <<idx[k][1]>>) \o FirstSeen(idx, k + 1)

\* (mutant) the distinct timestamps in the order the file has them
RowOrder_Unsorted(idx) == FirstSeen(idx, 1)

RowOrder(idx) == SortSet({idx[i][1] : i \in DOMAIN idx})
ColumnOrder(idx) == SortSet({idx[i][2] : i \in DOMAIN idx})

\* df0.unstack(): the inner index level (the zone id) moves into the
\* columns.  The rows of the result are the distinct timestamps in ascending
\* order, its columns the pairs (column, zone) in column order and then
\* ascending zone order; a (timestamp, zone) pair with no row in df0 leaves
\* NaN; a pair with two rows makes the reshape fail with a ValueError.
unstack(frame) ==
    LET idx == frame.index
        timeSet == {idx[i][1] : i \in DOMAIN idx}
        zoneSet == {idx[i][2] : i \in DOMAIN idx}
        times == RowOrder(idx)
        zones == ColumnOrder(idx)
        nz == Len(zones)
        nc == Len(frame.columns)
        \* the rows of df0 holding each (timestamp, zone) pair
        at == [p \in timeSet \X zoneSet |-> {i \in DOMAIN idx : idx[i] = p}]
        row(t) ==
            [k \in 1..(nc * nz) |->
                LET here == at[<<t, zones[((k - 1) % nz) + 1]>>]
                IN IF here = {} THEN NaN
                   ELSE frame.data[CHOOSE i \in here : TRUE]
                                  [((k - 1) \div nz) + 1]]
    IN IF Failed(frame) THEN frame
       ELSE IF \E p \in DOMAIN at : Cardinality(at[p]) > 1
       THEN Raise("ValueError")
       ELSE Frame(times, <<frame.names[1]>>,
                  [k \in 1..(nc * nz) |->
                      Key(frame.columns[((k - 1) \div nz) + 1].name,
                          <<zones[((k - 1) % nz) + 1]>>)],
                  [r \in DOMAIN times |-> row(times[r])])

\* df1.reset_index(): the index becomes the first column, (TIMESTAMP, '')
reset_index(frame) ==
    IF Failed(frame) THEN frame
    ELSE Frame([r \in DOMAIN frame.index |-> r - 1], <<>>,
               <<Key(frame.names[1], <<>>)>> \o frame.columns,
               [r \in DOMAIN frame.data |->
                   <<Val(frame.index[r])>> \o frame.data[r]])

\* series.subtract(series.shift(+1)): the difference to the row before
SubtractShifted(col) ==
    [r \in DOMAIN col |->
        IF r = 1 \/ IsNaN(col[r]) \/ IsNaN(col[r - 1]) THEN NaN
        ELSE Val(col[r][1] - col[r - 1][1])]

nturbines == 10
wind_measurements == <<1, 2, 3, 4, 5, 6, 7, 8, 9, 10>>
InList(x, list) == \E j \in DOMAIN list : list[j] = x

RECURSIVE DropUnmeasured(_, _)
\* for i in range(1, nturbines+1): if i not in wind_measurements: drop the
\* four wind columns of zone i
DropUnmeasured(frame, i) ==
    IF Failed(frame) \/ i > nturbines THEN frame
    ELSE DropUnmeasured(
            IF InList(i, wind_measurements) THEN frame
            ELSE DropLabels(frame, <<Key(U10, <<i>>), Key(V10, <<i>>),
                                     Key(U100, <<i>>), Key(V100, <<i>>)>>),
            i + 1)

min_periods == 1

RECURSIVE SumOver(_, _)
\* the sum of the values of col at the positions in S
SumOver(col, S) ==
    IF S = {} THEN 0
    ELSE LET k == CHOOSE x \in S : TRUE
         IN col[k][1] + SumOver(col, S \ {k})

\* series.rolling(window, min_periods=1).mean(): at row i the mean of the
\* non-NaN values among the last `window` rows up to i, NaN when there are
\* fewer than min_periods of them
\* (mutant) the default min_periods, the size of the window
RollingMean_DefaultMinPeriods(col, window) ==
    [i \in DOMAIN col |->
        LET lo == IF i - window + 1 < 1 THEN 1 ELSE i - window + 1
            obs == {k \in lo..i : ~IsNaN(col[k])}
        IN IF i - window + 1 >= 1 /\ Cardinality(obs) >= window
           THEN <<SumOver(col, obs), Cardinality(obs)>>
           ELSE NaN]

RollingMean(col, window) ==
    [i \in DOMAIN col |->
        LET lo == IF i - window + 1 < 1 THEN 1 ELSE i - window + 1
            obs == {k \in lo..i : ~IsNaN(col[k])}
        IN IF Cardinality(obs) >= min_periods
           THEN <<SumOver(col, obs), Cardinality(obs)>>
           ELSE NaN]

\* df2[(name+dname, i)] = df2[(name, i)].rolling(Nroll, min_periods=1).mean()
\* (mutant) the rolling mean replaces the raw column: df2[(name, i)] = ...
AddRolling_Replacing(frame, name, dname, i, window) ==
    IF Failed(frame) THEN frame
    ELSE LET at == Positions(frame.columns, Key(name, <<i>>))
         IN IF at = {} THEN Raise("KeyError")
            ELSE LET k == CHOOSE x \in at : TRUE
                 IN SetCol(frame, Key(name, <<i>>),
                           RollingMean([r \in DOMAIN frame.data |->
                                           frame.data[r][k]], window))

AddRolling(frame, name, dname, i, window) ==
    IF Failed(frame) THEN frame
    ELSE LET at == Positions(frame.columns, Key(name, <<i>>))
         IN IF at = {} THEN Raise("KeyError")
            ELSE LET k == CHOOSE x \in at : TRUE
                 IN SetCol(frame, Key(name \o dname, <<i>>),
                           RollingMean([r \in DOMAIN frame.data |->
                                           frame.data[r][k]], window))

RECURSIVE RollingLoop(_, _, _, _)
\* for i in wind_measurements: U10, U100, V10, V100 in this order
RollingLoop(frame, dname, j, window) ==
    IF Failed(frame) \/ j > Len(wind_measurements) THEN frame
    ELSE LET i == wind_measurements[j]
             a == AddRolling(frame, U10, dname, i, window)
             b == AddRolling(a, U100, dname, i, window)
             c == AddRolling(b, V10, dname, i, window)
             d == AddRolling(c, V100, dname, i, window)
         IN RollingLoop(d, dname, j + 1, window)

\* if Nroll>1: dname = "_rm"+str(Nroll) and the loop; else nothing
\* (mutant) if Nroll>=1
addRollingMeans_FromOne(frame, window) ==
    IF window >= 1
    THEN RollingLoop(frame, <<"_", "r", "m">> \o IntToStr(window), 1, window)
    ELSE frame

addRollingMeans(frame, window) ==
    IF window > 1
    THEN RollingLoop(frame, <<"_", "r", "m">> \o IntToStr(window), 1, window)
    ELSE frame

\* The calendar of a parsed timestamp (hours since 2012-01-01 00:00)
IsLeap(y) == (y % 4 = 0 /\ y % 100 # 0) \/ y % 400 = 0
DaysIn(y) == IF IsLeap(y) THEN 366 ELSE 365

RECURSIVE YearFrom(_, _)
YearFrom(y, days) ==
    IF days < DaysIn(y) THEN y ELSE YearFrom(y + 1, days - DaysIn(y))

RECURSIVE DayFrom(_, _)
DayFrom(y, days) ==
    IF days < DaysIn(y) THEN days + 1 ELSE DayFrom(y + 1, days - DaysIn(y))

\* x.year, x.timetuple().tm_yday, x.hour
year(x) == YearFrom(2012, x \div 24)
tm_yday(x) == DayFrom(2012, x \div 24)
hour(x) == x % 24

\* df2["YEAR"], df2["DAYOFYEAR"], df2["HOUR"] from df2["TIMESTAMP"], then
\* df2.drop('TIMESTAMP', axis=1, level=0)
addCalendar(frame) ==
    IF Failed(frame) THEN frame
    ELSE IF ~HasCol(frame, Key(TIMESTAMP, <<>>)) THEN Raise("KeyError")
    ELSE LET ts == GetCol(frame, Key(TIMESTAMP, <<>>))
             a == SetCol(frame, Key(YEAR, <<>>),
                         [r \in DOMAIN ts |-> Val(year(ts[r][1]))])
             b == SetCol(a, Key(DAYOFYEAR, <<>>),
                         [r \in DOMAIN ts |-> Val(tm_yday(ts[r][1]))])
             c == SetCol(b, Key(HOUR, <<>>),
                         [r \in DOMAIN ts |-> Val(hour(ts[r][1]))])
         IN DropName(c, TIMESTAMP)

\* preProcess(fname, Nroll, keepID): df2 as returned (or the exception that
\* ended the call), with the locals dtimes and Ntimepoints
preProcess(f, window, keep) ==
    LET df0 == dropID(fillna(read_csv(f)), keep)
        df1 == unstack(df0)
        df2 == reset_index(df1)
        measured == DropUnmeasured(df2, 1)
    IN [df2 |-> addCalendar(addRollingMeans(measured, window)),
        dtimes |-> IF Failed(df2) THEN <<>>
                   ELSE SubtractShifted(GetCol(df2, Key(TIMESTAMP, <<>>))),
        Ntimepoints |-> Len(df2.data),
        printed |->
            (IF Failed(df0) THEN <<>>
             ELSE <<IF keep THEN "ID column kept" ELSE "ID column dropped">>)
            \o (IF Failed(df1) THEN <<>> ELSE <<"unstacked">>)
            \o (IF Failed(measured) THEN <<>>
                ELSE <<IF window > 1 THEN "Computing rolling means"
                       ELSE "No rolling means computed">>)]

---------------------------------------------------------------------------
(* Cells 4, 6 and 7: the column renaming                                   *)

\* item[0] and str(item[1]) of a column label: of a MultiIndex key they are
\* the name and the printed second level, of a plain string its first and
\* second characters
item0(label) == IF label.tuple THEN label.name ELSE <<label.name[1]>>
str_item1(label) ==
    IF label.tuple
    THEN (IF label.sub = <<>> THEN <<>> ELSE IntToStr(label.sub[1]))
    ELSE <<label.name[2]>>

\* item[0]+'_'+str(item[1])
Joined(label) == item0(label) \o <<"_">> \o str_item1(label)

\* field if field[-1]!='_' else field[:-1]
StripLast(s) == IF s[Len(s)] # "_" THEN s ELSE SubSeq(s, 1, Len(s) - 1)

\* [e(x) for x in list if test(x)] as the subsequence of the kept positions
Chosen(list, keep) == Without(list, (DOMAIN list) \ keep)

\* frame.columns = names: positional; ValueError on a length mismatch
SetColumns(frame, names) ==
    IF Len(names) # Len(frame.columns) THEN Raise("ValueError")
    ELSE [frame EXCEPT !.columns = [k \in DOMAIN names |-> Lbl(names[k])]]

\* (mutant) predictors+targets
Cell4Names_PredictorsFirst(columns) ==
    LET joined == [k \in DOMAIN columns |-> Joined(columns[k])]
        isTarget == {k \in DOMAIN columns : item0(columns[k]) = TARGETVAR}
        predictors == Chosen([k \in DOMAIN columns |-> StripLast(joined[k])],
                             (DOMAIN columns) \ isTarget)
        targets == Chosen(joined, isTarget)
    IN predictors \o targets

\* Cell 4: predictors (stripped), targets (not stripped), targets+predictors
Cell4Names(columns) ==
    LET joined == [k \in DOMAIN columns |-> Joined(columns[k])]
        isTarget == {k \in DOMAIN columns : item0(columns[k]) = TARGETVAR}
        predictors == Chosen([k \in DOMAIN columns |-> StripLast(joined[k])],
                             (DOMAIN columns) \ isTarget)
        targets == Chosen(joined, isTarget)
    IN targets \o predictors

\* Cells 6 and 7: every column joined and stripped, in column order
Cell6Names(columns) ==
    [k \in DOMAIN columns |-> StripLast(Joined(columns[k]))]
Cell7Names(columns) ==
    [k \in DOMAIN columns |-> StripLast(Joined(columns[k]))]

RenameCell4(frame) == SetColumns(frame, Cell4Names(frame.columns))
RenameCell6(frame) == SetColumns(frame, Cell6Names(frame.columns))
RenameCell7(frame) == SetColumns(frame, Cell7Names(frame.columns))

Rename(which, frame) ==
    CASE which = "Cell4" -> RenameCell4(frame)
      [] which = "Cell6" -> RenameCell6(frame)
      [] which = "Cell7" -> RenameCell7(frame)

---------------------------------------------------------------------------
(* The input files the model is run on                                     *)

\* 2012-12-31 22:00, so that the instants cross the end of a leap year
FirstInstant == 365 * 24 + 22
Instants == {FirstInstant + k : k \in 0..(MaxT - 1)}

RECURSIVE Reversed(_)
Reversed(s) == IF s = <<>> THEN <<>> ELSE Reversed(Tail(s)) \o <<Head(s)>>

\* the timestamps of a file in the order of their first row: any non-empty
\* set of instants, oldest first or newest first
TimeOrders ==
    UNION {{SortSet(T), Reversed(SortSet(T))} : T \in (SUBSET Instants) \ {{}}}

Header(hasTarget) ==
    <<ID, ZONEID, TIMESTAMP>> \o (IF hasTarget THEN <<TARGETVAR>> ELSE <<>>)
        \o <<U10, V10, U100, V100>>

\* the value of file column c in the row of instant t and zone z: distinct
\* for distinct (t, z, c), and not linear in t
Reading(t, z, c) ==
    LET k == t - FirstInstant + 1
    IN IF c = 1 THEN 100 * k + z ELSE 50 * k * k + 11 * c + z

Row(header, t, z, extra) ==
    [c \in DOMAIN header |->
        IF c = 2 THEN Val(z)
        ELSE IF c = 3 THEN Val(t)
        ELSE Val(Reading(t, z, c) + extra)]

\* the rows of a complete file: one per (instant, zone), grouped by instant
\* ("bytime") or by zone ("byzone")
CompleteRows(header, order, layout) ==
    LET n == Len(order)
    IN [i \in 1..(n * nturbines) |->
          IF layout = "bytime"
          THEN Row(header, order[((i - 1) \div nturbines) + 1],
                   ((i - 1) % nturbines) + 1, 0)
          ELSE Row(header, order[((i - 1) % n) + 1], ((i - 1) \div n) + 1, 0)]

IsRowOf(row, t, z) == row[3] = Val(t) /\ row[2] = Val(z)

\* what is wrong with a file: nothing, or in the rows of the instant it
\* starts with one blank cell, one (instant, zone) row absent or one row
\* present twice, or a zone absent from the whole file
Defects(header, order) ==
    {[kind |-> "none", t |-> 0, z |-> 0, c |-> 0]}
    \cup {[kind |-> k, t |-> order[1], z |-> z, c |-> 4] :
            k \in {"blank", "missing", "duplicate"}, z \in 1..MaxBadZone}
    \cup {[kind |-> "nozone", t |-> 0, z |-> z, c |-> 0] :
            z \in 1..MaxBadZone}

WithDefect(header, rows, d) ==
    CASE d.kind = "none" -> rows
      [] d.kind = "blank" ->
            [i \in DOMAIN rows |->
                IF IsRowOf(rows[i], d.t, d.z)
                THEN [rows[i] EXCEPT ![d.c] = NaN] ELSE rows[i]]
      [] d.kind = "missing" ->
            Without(rows, {i \in DOMAIN rows : IsRowOf(rows[i], d.t, d.z)})
      [] d.kind = "duplicate" -> Append(rows, Row(header, d.t, d.z, 1000))
      [] d.kind = "nozone" ->
            Without(rows, {i \in DOMAIN rows : rows[i][2] = Val(d.z)})

File(hasTarget, order, layout, d) ==
    [header |-> Header(hasTarget),
     rows |-> WithDefect(Header(hasTarget),
                         CompleteRows(Header(hasTarget), order, layout), d)]

Files ==
    UNION {{File(hasTarget, order, layout, d) :
                d \in Defects(Header(hasTarget), order)} :
            hasTarget \in BOOLEAN, order \in TimeOrders,
            layout \in {"bytime", "byzone"}}

---------------------------------------------------------------------------
(* preProcess and the renaming applied to every file                       *)

NotebookIdle ==
    /\ files = <<>>
    /\ globals = <<>>
    /\ cells = <<>>
    /\ written = {}

Init ==
    /\ csv \in Files
    /\ Nroll \in 0..MaxNroll
    /\ keepID \in BOOLEAN
    /\ pc = "start"
    /\ df = NoFrame
    /\ dtimes = <<>>
    /\ flat = NoFrame
    /\ rule = ""
    /\ flat2 = NoFrame
    /\ NotebookIdle

\* df = preProcess(csv, Nroll=Nroll, keepID=keepID)
CallPreProcess ==
    /\ pc = "start"
    /\ \E returned \in {preProcess(csv, Nroll, keepID)} :
          /\ df' = returned.df2
          /\ dtimes' = returned.dtimes
          /\ pc' = IF Failed(returned.df2) THEN "raised" ELSE "returned"
    /\ UNCHANGED <<csv, Nroll, keepID, flat, rule, flat2, files, globals,
                   cells, written>>

\* the renaming of Cell 4 (on a frame made with keepID=False), of Cell 6
\* (keepID=True) or of Cell 7 (keepID=False)
RenameColumns(which) ==
    /\ pc = "returned"
    /\ keepID = (which = "Cell6")
    /\ flat' = Rename(which, df)
    /\ rule' = which
    /\ pc' = "flat"
    /\ UNCHANGED <<csv, Nroll, keepID, df, dtimes, flat2, files, globals,
                   cells, written>>

\* the same renaming code run on the frame it has already renamed
RenameAgain ==
    /\ pc = "flat"
    /\ ~Failed(flat)
    /\ flat2' = Rename(rule, flat)
    /\ pc' = "flat2"
    /\ UNCHANGED <<csv, Nroll, keepID, df, dtimes, flat, rule, files, globals,
                   cells, written>>

Next ==
    \/ CallPreProcess
    \/ RenameColumns("Cell4")
    \/ RenameColumns("Cell6")
    \/ RenameColumns("Cell7")
    \/ RenameAgain

Spec == Init /\ [][Next]_vars

---------------------------------------------------------------------------
(* Cells 3 to 7 of the notebook                                            *)

CallIdle ==
    /\ csv = <<>>
    /\ Nroll = 0
    /\ keepID = FALSE
    /\ pc = "notebook"
    /\ df = NoFrame
    /\ dtimes = <<>>
    /\ flat = NoFrame
    /\ rule = ""
    /\ flat2 = NoFrame

CellNames == {"Cell3", "Cell4", "Cell5", "Cell6", "Cell7"}

\* the csv file each cell reads
train_csv3 == "Train_O4UPEyW.csv"
train_csv4 == "Train_full.csv"
test_csv == "data/Test_uP7dymh.csv"
solution_csv == "data/Solution.csv"

\* the files a notebook run may find: whole or with a row present twice,
\* the test file without TARGETVAR
OnDisk(hasTarget) ==
    {File(hasTarget, <<FirstInstant>>, "byzone", d) :
        d \in {[kind |-> "none", t |-> 0, z |-> 0, c |-> 0],
               [kind |-> "duplicate", t |-> FirstInstant, z |-> 1, c |-> 0]}}

NotebookInit ==
    /\ \E a \in OnDisk(TRUE), b \in OnDisk(TRUE), c \in OnDisk(FALSE),
          d \in OnDisk(TRUE) :
            files = (train_csv3 :> a) @@ (train_csv4 :> b) @@ (test_csv :> c)
                        @@ (solution_csv :> d)
    /\ globals = [train_df |-> NoFrame, test_df |-> NoFrame,
                  solution_df |-> NoFrame]
    /\ cells = [c \in CellNames |->
                    [status |-> "idle", out |-> <<>>, attempts |-> <<>>]]
    /\ written = {}
    /\ CallIdle

\* a cell whose call of preProcess raised: the exception ends the cell
Aborted(c, returned) ==
    /\ cells' = [cells EXCEPT ![c] = [status |-> "raised",
                                      out |-> returned.printed,
                                      attempts |-> <<>>]]
    /\ UNCHANGED <<globals, written>>

\* (mutant) no try/except around the write: its exception leaves the cell
TryWrite_Uncaught(fname, ok, disk) ==
    [out |-> IF ok THEN <<"saved to " \o fname>> ELSE <<>>,
     disk |-> IF ok THEN disk \cup {fname} ELSE disk,
     raised |-> ~ok]

\* try: write(frame, fname); print(saved) / except: print(error): the lines
\* printed and the files on disk after it, the write succeeding or not, and
\* whether an exception leaves the statement (the bare except lets none)
TryWrite(fname, ok, disk) ==
    [out |-> <<IF ok THEN "saved to " \o fname
               ELSE "Error saving to " \o fname>>,
     disk |-> IF ok THEN disk \cup {fname} ELSE disk,
     raised |-> FALSE]

\* the state of a cell that ran to its end, or that an exception ended
Ran(out, attempts, raised) ==
    [status |-> IF raised THEN "raised" ELSE "done", out |-> out,
     attempts |-> attempts]

\* the frame a cell keeps and writes: as returned, or with renamed columns
Renamed(renaming, frame) ==
    IF renaming = "none" THEN frame ELSE Rename(renaming, frame)

\* A cell with one output: df = preProcess(fname, Nroll=3, keepID=keep);
\* [rename;] print head; guarded write
OneOutputCell(c, fname, keep, var, renaming, sink) ==
    /\ cells[c].status = "idle"
    /\ \E returned \in {preProcess(files[fname], 3, keep)} :
          IF Failed(returned.df2) THEN Aborted(c, returned)
          ELSE \E ok \in BOOLEAN :
                  LET w == TryWrite(sink, ok, written)
                  IN /\ globals' = [globals EXCEPT
                                      ![var] = Renamed(renaming,
                                                       returned.df2)]
                     /\ cells' = [cells EXCEPT ![c] =
                            Ran(returned.printed \o <<"Dataframe " \o var>>
                                    \o w.out,
                                <<sink>>, w.raised)]
                     /\ written' = w.disk
    /\ UNCHANGED <<csv, Nroll, keepID, pc, df, dtimes, flat, rule, flat2,
                   files>>

\* Cell 3: training set, keepID=False, to_pickle
Cell3 ==
    OneOutputCell("Cell3", train_csv3, FALSE, "train_df", "none",
                  "Train_pp.pkl")

\* Cell 4: training set, keepID=False, renamed targets+predictors, feather
Cell4 ==
    OneOutputCell("Cell4", train_csv4, FALSE, "train_df", "Cell4",
                  "data/Train_pp.feather")

\* Cell 5: testing set, keepID=True, to_pickle
Cell5 ==
    OneOutputCell("Cell5", test_csv, TRUE, "test_df", "none",
                  "data/Test_pp.pkl")

\* Cell 6: testing set, keepID=True, renamed, feather
Cell6 ==
    OneOutputCell("Cell6", test_csv, TRUE, "test_df", "Cell6",
                  "data/Test_pp.feather")

\* Cell 7: solution_df = preProcess(solution_csv, Nroll=3, keepID=False);
\* head; guarded to_pickle; rename; head; guarded feather.write_dataframe.
\* An exception leaving the first write would end the cell there.
Cell7 ==
    /\ cells["Cell7"].status = "idle"
    /\ \E returned \in {preProcess(files[solution_csv], 3, FALSE)} :
          IF Failed(returned.df2) THEN Aborted("Cell7", returned)
          ELSE \E ok1, ok2 \in BOOLEAN :
                  LET w1 == TryWrite("data/Solution_pp.pkl", ok1, written)
                      w2 == TryWrite("data/Solution_pp.feather", ok2, w1.disk)
                      head1 == returned.printed
                                  \o <<"Dataframe solution_df for pickle">>
                                  \o w1.out
                  IN IF w1.raised
                     THEN /\ globals' = [globals EXCEPT
                                           !.solution_df = returned.df2]
                          /\ cells' = [cells EXCEPT !["Cell7"] =
                                 Ran(head1, <<"data/Solution_pp.pkl">>, TRUE)]
                          /\ written' = w1.disk
                     ELSE /\ globals' = [globals EXCEPT
                                 !.solution_df = RenameCell7(returned.df2)]
                          /\ cells' = [cells EXCEPT !["Cell7"] =
                                 Ran(head1
                                       \o <<"Dataframe solution_df for feather">>
                                       \o w2.out,
                                     <<"data/Solution_pp.pkl",
                                       "data/Solution_pp.feather">>,
                                     w2.raised)]
                          /\ written' = w2.disk
    /\ UNCHANGED <<csv, Nroll, keepID, pc, df, dtimes, flat, rule, flat2,
                   files>>

NotebookNext == Cell3 \/ Cell4 \/ Cell5 \/ Cell6 \/ Cell7

NotebookSpec == NotebookInit /\ [][NotebookNext]_vars


---------------------------------------------------------------------------
(* What the properties below speak of                                      *)

Returned == pc \in {"returned", "flat", "flat2"}
Called == pc # "start"

WindNames == {U10, V10, U100, V100}
RawNames == WindNames \cup {TARGETVAR}

FileTimes == {csv.rows[i][3][1] : i \in DOMAIN csv.rows}
FileZones == {csv.rows[i][2][1] : i \in DOMAIN csv.rows}
RowsAt(t, z) ==
    {i \in DOMAIN csv.rows : csv.rows[i][3][1] = t /\ csv.rows[i][2][1] = z}

\* each timestamp of a file has exactly one row for each of the zones
ValidFile(f) ==
    /\ {f.rows[i][2][1] : i \in DOMAIN f.rows} = 1..nturbines
    /\ \A t \in {f.rows[i][3][1] : i \in DOMAIN f.rows}, z \in 1..nturbines :
          Cardinality({i \in DOMAIN f.rows :
                          f.rows[i][3][1] = t /\ f.rows[i][2][1] = z}) = 1
ValidInput == ValidFile(csv)

\* the file columns that hold measurements
FieldPositions(names) == {c \in DOMAIN csv.header : csv.header[c] \in names}

\* the value of a file cell as an observation: a blank is 0.0
Observed(v) == IF IsNaN(v) THEN Val(0) ELSE v

\* the k-th timestamp of the file in ascending order
TimeOfRank(k) == SortSet(FileTimes)[k]

Top(name) == Key(name, <<>>)

\* for each timestamp of the file, the rows of a frame whose YEAR, DAYOFYEAR
\* and HOUR are those of the timestamp
TimeRows(frame, renamed) ==
    LET label(name) == IF renamed THEN Lbl(name) ELSE Top(name)
        y == ColPos(frame, label(YEAR))
        d == ColPos(frame, label(DAYOFYEAR))
        h == ColPos(frame, label(HOUR))
    IN [t \in FileTimes |->
          {r \in DOMAIN frame.data :
              /\ frame.data[r][y] = Val(year(t))
              /\ frame.data[r][d] = Val(tm_yday(t))
              /\ frame.data[r][h] = Val(hour(t))}]

\* the frame has exactly one column with this label, and for every row of
\* the file that is of zone z the column holds, in the frame's row of the
\* file row's timestamp (there is one), the observation of file column c
ColumnHolds(frame, label, z, c, rowsOf) ==
    \A at \in {Positions(frame.columns, label)} :
        /\ Cardinality(at) = 1
        /\ \A k \in at, i \in DOMAIN csv.rows :
              csv.rows[i][2][1] = z =>
                  /\ rowsOf[csv.rows[i][3][1]] # {}
                  /\ \A r \in rowsOf[csv.rows[i][3][1]] :
                        frame.data[r][k] = Observed(csv.rows[i][c])

RollName(q) == q \o <<"_", "r", "m">> \o IntToStr(Nroll)

---------------------------------------------------------------------------
(* C1: for a valid input (every timestamp has exactly one row for each of  *)
(* the 10 zones) preProcess returns a table, and the table has exactly one *)
(* row for each distinct timestamp of the file, N rows in all, for any     *)
(* Nroll and either keepID.                                                *)
C1_OneRowPerTimestamp ==
    (Called /\ ValidInput) =>
        /\ ~Failed(df)
        /\ Len(df.data) = Cardinality(FileTimes)
        /\ \A t \in FileTimes : Cardinality(TimeRows(df, FALSE)[t]) = 1

C1_Witness ==
    /\ pc = "returned" /\ ValidInput
    /\ Cardinality(FileTimes) = MaxT
    /\ Len(df.data) = MaxT
    /\ keepID /\ Nroll > 1

C3_RollingMean ==
    (pc = "returned" /\ Nroll > 1) =>
        \A z \in 1..nturbines, q \in WindNames :
            /\ HasCol(df, Key(q, <<z>>))
            /\ HasCol(df, Key(RollName(q), <<z>>))
            /\ \A raw \in {GetCol(df, Key(q, <<z>>))},
                  means \in {GetCol(df, Key(RollName(q), <<z>>))},
                  i \in DOMAIN df.data :
                  LET lo == IF i - Nroll + 1 < 1 THEN 1 ELSE i - Nroll + 1
                  IN (\A k \in lo..i : ~IsNaN(raw[k])) =>
                        /\ ~IsNaN(means[i])
                        /\ means[i][1] * (i - lo + 1)
                              = SumOver(raw, lo..i) * means[i][2]

C3_Witness ==
    /\ pc = "returned" /\ Nroll = 2 /\ ValidInput
    /\ Len(df.data) = 3
    /\ HasCol(df, Key(RollName(V100), <<nturbines>>))
    /\ GetCol(df, Key(RollName(V100), <<nturbines>>))[3][2] = 2
    /\ GetCol(df, Key(RollName(V100), <<nturbines>>))[1][2] = 1

C6_NoRollingColumns ==
    (pc = "returned" /\ Nroll <= 1) =>
        LET fields == {csv.header[c] : c \in DOMAIN csv.header}
                        \ ({ZONEID, TIMESTAMP}
                            \cup (IF keepID THEN {} ELSE {ID}))
            expected == {Key(f, <<z>>) : f \in fields, z \in FileZones}
                          \cup {Top(YEAR), Top(DAYOFYEAR), Top(HOUR)}
        IN /\ {df.columns[k] : k \in DOMAIN df.columns} = expected
           /\ Len(df.columns) = Cardinality(expected)
           /\ \A rowsOf \in {TimeRows(df, FALSE)} :
                 \A c \in FieldPositions(fields), z \in FileZones :
                     ColumnHolds(df, Key(csv.header[c], <<z>>), z, c, rowsOf)

C6_Witness ==
    /\ pc = "returned" /\ Nroll = 1 /\ ValidInput
    /\ Len(df.data) = 3
    /\ Len(df.columns) = 5 * nturbines + 3

(* C7: with keepID=False the returned table has no column made from the   *)
(* ID field, for any zone; with keepID=True the ID of every input row is   *)
(* in the column (ID, zone) at the row of its timestamp.                   *)
C7_KeepID ==
    (pc = "returned") =>
        /\ ~keepID => \A k \in DOMAIN df.columns : df.columns[k].name # ID
        /\ keepID =>
              \A rowsOf \in {TimeRows(df, FALSE)} :
                 \A z \in FileZones :
                     ColumnHolds(df, Key(ID, <<z>>), z, 1, rowsOf)

C7_WitnessKept ==
    /\ pc = "returned" /\ keepID /\ ValidInput
    /\ HasCol(df, Key(ID, <<nturbines>>))
    /\ Len(df.data) > 1

(* C10: the rows of the returned table are in strictly ascending timestamp *)
(* order whatever the order of the rows in the file; the differences       *)
(* dtimes are those of consecutive timestamps in ascending order; and the  *)
(* rolling mean at row i is the mean of the input values of the Nroll      *)
(* timestamps that end with the i-th smallest one.                         *)
C10_AscendingRows ==
    (pc = "returned" /\ ValidInput) =>
        /\ \A rowsOf \in {TimeRows(df, FALSE)}, r \in DOMAIN df.data :
              r \in rowsOf[TimeOfRank(r)]
        /\ Len(dtimes) = Len(df.data)
        /\ \A r \in DOMAIN dtimes :
              dtimes[r] = IF r = 1 THEN NaN
                          ELSE Val(TimeOfRank(r) - TimeOfRank(r - 1))
        /\ \A r \in DOMAIN dtimes : r > 1 => dtimes[r][1] > 0
        /\ Nroll > 1 =>
              \A z \in 1..nturbines, c \in FieldPositions(WindNames) :
                 \A inputs \in {[k \in DOMAIN df.data |->
                                   Observed(csv.rows[CHOOSE j \in
                                       RowsAt(TimeOfRank(k), z) : TRUE][c])]},
                    means \in {GetCol(df, Key(RollName(csv.header[c]),
                                              <<z>>))},
                    i \in DOMAIN df.data :
                     LET lo == IF i - Nroll + 1 < 1 THEN 1
                               ELSE i - Nroll + 1
                     IN means[i][1] * (i - lo + 1)
                           = SumOver(inputs, lo..i) * means[i][2]

C10_Witness ==
    /\ pc = "returned" /\ ValidInput /\ Nroll > 1
    /\ Len(df.data) = 3
    /\ csv.rows[1][3][1] > csv.rows[Len(csv.rows)][3][1]

---------------------------------------------------------------------------
(* The notebook's cells                                                    *)

CsvOf(c) ==
    CASE c = "Cell3" -> train_csv3
      [] c = "Cell4" -> train_csv4
      [] c \in {"Cell5", "Cell6"} -> test_csv
      [] c = "Cell7" -> solution_csv

SinksOf(c) ==
    CASE c = "Cell3" -> <<"Train_pp.pkl">>
      [] c = "Cell4" -> <<"data/Train_pp.feather">>
      [] c = "Cell5" -> <<"data/Test_pp.pkl">>
      [] c = "Cell6" -> <<"data/Test_pp.feather">>
      [] c = "Cell7" -> <<"data/Solution_pp.pkl", "data/Solution_pp.feather">>

(* C9: a failing output writer never aborts the run.  A cell whose         *)
(* preProcess call returned runs to its end whatever its writes do: every  *)
(* write of the cell is attempted, in order, and each either leaves its    *)
(* file or an error message in the cell's output; in Cell 7 the columns    *)
(* are renamed and the feather write attempted after a failed pickle       *)
(* write too.  A cell whose preProcess call raised attempts no write,      *)
(* leaves no file and prints neither message; and only an invalid input    *)
(* ends a cell so.                                                         *)
C9_WriteFailuresCaught ==
    (pc = "notebook") =>
    \A c \in CellNames :
        /\ cells[c].status = "done" =>
              /\ cells[c].attempts = SinksOf(c)
              /\ \A j \in DOMAIN SinksOf(c) :
                    \/ /\ SinksOf(c)[j] \in written
                       /\ InList("saved to " \o SinksOf(c)[j], cells[c].out)
                    \/ /\ SinksOf(c)[j] \notin written
                       /\ InList("Error saving to " \o SinksOf(c)[j],
                                 cells[c].out)
        /\ (c = "Cell7" /\ cells[c].status = "done") =>
              \A k \in DOMAIN globals.solution_df.columns :
                  ~globals.solution_df.columns[k].tuple
        /\ cells[c].status = "raised" =>
              /\ ~ValidFile(files[CsvOf(c)])
              /\ cells[c].attempts = <<>>
              /\ \A j \in DOMAIN SinksOf(c) :
                    /\ SinksOf(c)[j] \notin written
                    /\ ~InList("saved to " \o SinksOf(c)[j], cells[c].out)
                    /\ ~InList("Error saving to " \o SinksOf(c)[j],
                               cells[c].out)
        /\ (cells[c].status # "idle" /\ ValidFile(files[CsvOf(c)])) =>
              cells[c].status = "done"

C9_Witness ==
    /\ pc = "notebook"
    /\ cells["Cell7"].status = "done"
    /\ InList("Error saving to data/Solution_pp.pkl", cells["Cell7"].out)
    /\ "data/Solution_pp.feather" \in written
    /\ cells["Cell3"].status = "done"
    /\ InList("Error saving to Train_pp.pkl", cells["Cell3"].out)
    /\ cells["Cell6"].status = "raised"

---------------------------------------------------------------------------
(* Statements the code does not meet                                       *)

(* C4: flattening is idempotent: the renaming code applied to a table      *)
(* whose columns are already flat strings leaves every column name         *)
(* unchanged.                                                              *)
C4_FlattenIdempotent ==
    (pc = "flat2") => (~Failed(flat2) /\ flat2.columns = flat.columns)

(* C8: preProcess fails, and returns no table, whenever some timestamp of  *)
(* the file lacks a row for one of the 10 zones or has more than one row   *)
(* for a zone; it never returns a table in which a (field, zone) cell of   *)
(* some timestamp is missing.                                              *)
C8_InvalidInputRejected ==
    /\ (Called /\ ~ValidInput) => Failed(df)
    /\ Returned =>
          \A r \in DOMAIN df.data, k \in DOMAIN df.columns :
              ~IsNaN(df.data[r][k])

=============================================================================
